---- MODULE Spec2Model ----
(***************************************************************************)
(* Model of dns/qcloud/qcloud.go: the DNS-01 challenge provider for        *)
(* qcloud cns.  Strings the code slices, searches or concatenates (domain  *)
(* names, FQDNs, zone names, record names) are sequences of one-character  *)
(* strings, so that strings.Index, UnFqdn and the [:2] slice are computed  *)
(* as the code computes them.  Opaque strings (secrets, key                *)
(* authorizations, error kinds, record types) are TLA+ strings.            *)
(*                                                                         *)
(* The vendor (cns.Client) is the zone list DomainList returns, the        *)
(* records of the zones and the next Id the vendor assigns.  Every         *)
(* operation of the provider is one action: the code is a sequential       *)
(* blocking call chain, and the vendor call that fails (if any) is an      *)
(* input of the action.                                                    *)
(***************************************************************************)
EXTENDS Integers, Sequences, FiniteSets, TLC

VARIABLES
    provider,     \* the *DNSProvider: [exists, config]
    zones,        \* vendor: the result of DomainList(), a sequence of cns.Domain
    records,      \* vendor: the records of all zones, in creation order
    nextId,       \* vendor: the Id the next created record gets
    lastOp,       \* the last call of the provider's API and what it did
    prevRecords,  \* history: records before the last call
    built         \* history: the configuration the provider was constructed with

vars == <<provider, zones, records, nextId, lastOp, prevRecords, built>>

----------------------------------------------------------------------------
(* Bounds of the model *)

\* The vendor accepts this many RecordCreate calls.
MaxCreates == 3

----------------------------------------------------------------------------
(* Strings *)

Dot == "."
Star == "*"

\* "_acme-challenge."
AcmePrefix == <<"_","a","c","m","e","-","c","h","a","l","l","e","n","g","e",".">>

\* "*."
WildcardPrefix == <<Star, Dot>>

\* The zones that answer an SOA query (the DNS, outside the program): "b.c." and "z.y."
SOAZones == { <<"b",".","c",".">>, <<"z",".","y",".">> }

DomBC == <<"b",".","c">>
DomBCxBC == <<"b",".","c","x",".","b",".","c">>
DomC == <<"c">>

\* The challenges of an order, each a domain and its key authorization:
\* "b.c", "*.b.c" and "b.cx.b.c", all of the zone "b.c."
Challenges ==
    { <<DomBC, "ka1">>, <<WildcardPrefix \o DomBC, "ka2">>, <<DomBCxBC, "ka3">> }

\* Challenges for names outside every hosted zone: "c" and "*.c"
StrayChallenges ==
    { <<DomC, "ka4">>, <<WildcardPrefix \o DomC, "ka5">> }

\* strings.Index(s, sub): the 0-based index of the first occurrence, or -1
Index(s, sub) ==
    LET hits == { i \in 1..(Len(s) - Len(sub) + 1) : SubSeq(s, i, i + Len(sub) - 1) = sub }
    IN  IF hits = {} THEN -1
        ELSE (CHOOSE i \in hits : \A j \in hits : i <= j) - 1

\* dns01.UnFqdn: drops one trailing dot
UnFqdn(name) ==
    IF Len(name) > 0 /\ name[Len(name)] = Dot THEN SubSeq(name, 1, Len(name) - 1) ELSE name

\* dns01.ToFqdn: adds the trailing dot when it is missing
ToFqdn(name) ==
    IF Len(name) = 0 \/ name[Len(name)] = Dot THEN name ELSE name \o <<Dot>>

\* The 1-based positions where a label of fqdn starts (dns.Split)
LabelStarts(fqdn) ==
    { i \in 1..Len(fqdn) : fqdn[i] # Dot /\ (i = 1 \/ fqdn[i - 1] = Dot) }

NoZone == <<>>

\* dns01.FindZoneByFqdn: walks the labels from the left and returns the first
\* (longest) suffix that answers an SOA query; NoZone stands for its error.
FindZoneByFqdn(fqdn) ==
    LET hits == { i \in LabelStarts(fqdn) : SubSeq(fqdn, i, Len(fqdn)) \in SOAZones }
    IN  IF hits = {} THEN NoZone
        ELSE LET first == CHOOSE i \in hits : \A j \in hits : i <= j
             IN  SubSeq(fqdn, first, Len(fqdn))

\* The TXT value of a key authorization: base64url(sha256(keyAuth))
ChallengeValue(keyAuth) == <<"b64sha256", keyAuth>>

\* dns01.GetRecord(domain, keyAuth)
GetRecord(domain, keyAuth) ==
    [ fqdn  |-> AcmePrefix \o domain \o <<Dot>>,
      value |-> ChallengeValue(keyAuth) ]

----------------------------------------------------------------------------
(* Configuration and construction *)

Nil == "nil"

DefaultTTL == 600
DefaultPropagationTimeout == 60
DefaultPollingInterval == 2

\* A *Config; isNil stands for the nil pointer.
NilConfig ==
    [ isNil |-> TRUE, SecretId |-> "", SecretKey |-> "", TTL |-> 0,
      PropagationTimeout |-> 0, PollingInterval |-> 0 ]

\* NewDefaultConfig(): the environment may override the TTL (0: QCLOUD_TTL unset)
NewDefaultConfig(envTTL) ==
    [ isNil |-> FALSE, SecretId |-> "", SecretKey |-> "",
      TTL |-> IF envTTL = 0 THEN DefaultTTL ELSE envTTL,
      PropagationTimeout |-> DefaultPropagationTimeout,
      PollingInterval |-> DefaultPollingInterval ]

SecretIds == { "", "AKID" }
SecretKeys == { "", "SK" }

\* The configurations a caller hands to NewDNSProviderConfig
Configs ==
    { NilConfig,
      [ NewDefaultConfig(0) EXCEPT !.SecretId = "AKID" ],
      [ NewDefaultConfig(0) EXCEPT !.SecretKey = "SK" ],
      [ isNil |-> FALSE, SecretId |-> "AKID", SecretKey |-> "SK", TTL |-> 120,
        PropagationTimeout |-> 90, PollingInterval |-> 5 ] }

NoProvider == [ exists |-> FALSE, config |-> NilConfig ]

\* NewDNSProviderConfig(config)
NewDNSProviderConfig(config) ==
    IF config.isNil
    THEN [ provider |-> NoProvider, err |-> "configuration is nil" ]
    ELSE IF config.SecretKey = ""
    THEN [ provider |-> NoProvider, err |-> "credentials missing" ]
    ELSE [ provider |-> [ exists |-> TRUE, config |-> config ], err |-> Nil ]

\* NewDNSProvider(): env.Get fails when a variable is unset or empty
NewDNSProvider(envId, envKey, envTTL) ==
    IF envId = "" \/ envKey = ""
    THEN [ provider |-> NoProvider, err |-> "environment variable missing" ]
    ELSE NewDNSProviderConfig(
             [ NewDefaultConfig(envTTL) EXCEPT !.SecretId = envId, !.SecretKey = envKey ])

----------------------------------------------------------------------------
(* The vendor: cns.Client *)

\* cns.Domain and its zero value
ZeroDomain == [ Id |-> 0, Name |-> <<>> ]

\* The fields of a cns.Record the provider sets (Line is the constant default line)
TxtRecord(name, value, ttl) ==
    [ Type |-> "TXT", Name |-> name, Value |-> value, Ttl |-> ttl ]

ZeroRecord == [ Type |-> "", Name |-> <<>>, Value |-> <<>>, Ttl |-> 0 ]

\* One vendor call as the provider issued it, and whether it succeeded
Call(api, zone, id, rec, ok) ==
    [ api |-> api, zone |-> zone, id |-> id, rec |-> rec, ok |-> ok ]

\* client.RecordList(zone): the records of the zone
RecordList(recs, zone) == SelectSeq(recs, LAMBDA r : r.Zone = zone)

\* client.RecordCreate(zone, rec): the vendor stores the record under a fresh Id
RecordCreate(recs, id, zone, rec) ==
    Append(recs, [ Id |-> id, Zone |-> zone, Type |-> rec.Type, Name |-> rec.Name,
                   Value |-> rec.Value, Ttl |-> rec.Ttl ])

\* client.RecordDelete(zone, id): the vendor drops the record with this Id
RecordDelete(recs, zone, id) ==
    SelectSeq(recs, LAMBDA r : ~(r.Zone = zone /\ r.Id = id))

----------------------------------------------------------------------------
(* The provider's helpers.  callNo is the number of the next vendor call of  *)
(* the running operation, failAt the number of the vendor call that fails    *)
(* (0: none fails).                                                          *)

\* The last zone of zs named name, or the zero value (the loop of getHostedZone)
LastNamed(zs, name) ==
    LET hits == { i \in 1..Len(zs) : zs[i].Name = name }
    IN  IF hits = {} THEN ZeroDomain
        ELSE zs[CHOOSE i \in hits : \A j \in hits : j <= i]

\* Mutant of getHostedZone: the check of hostedZone.Id is dropped.
getHostedZoneNoIdCheck(domain, callNo, failAt) ==
    IF callNo = failAt
    THEN [ calls |-> << Call("DomainList", <<>>, 0, ZeroRecord, FALSE) >>,
           err |-> "DomainList() API call failed", id |-> 0, name |-> <<>> ]
    ELSE LET called == << Call("DomainList", <<>>, 0, ZeroRecord, TRUE) >>
             authZone == FindZoneByFqdn(ToFqdn(domain))
             hostedZone == LastNamed(zones, UnFqdn(authZone))
         IN  IF authZone = NoZone
             THEN [ calls |-> called, err |-> "could not find the start of authority",
                    id |-> 0, name |-> <<>> ]
             ELSE [ calls |-> called, err |-> Nil,
                    id |-> hostedZone.Id, name |-> hostedZone.Name ]

\* getHostedZone(domain)
getHostedZone(domain, callNo, failAt) ==
    IF callNo = failAt
    THEN [ calls |-> << Call("DomainList", <<>>, 0, ZeroRecord, FALSE) >>,
           err |-> "DomainList() API call failed", id |-> 0, name |-> <<>> ]
    ELSE LET called == << Call("DomainList", <<>>, 0, ZeroRecord, TRUE) >>
             authZone == FindZoneByFqdn(ToFqdn(domain))
             hostedZone == LastNamed(zones, UnFqdn(authZone))
         IN  IF authZone = NoZone
             THEN [ calls |-> called, err |-> "could not find the start of authority",
                    id |-> 0, name |-> <<>> ]
             ELSE IF hostedZone.Id = 0
             THEN [ calls |-> called, err |-> "zone not found in qcloud cns",
                    id |-> 0, name |-> <<>> ]
             ELSE [ calls |-> called, err |-> Nil,
                    id |-> hostedZone.Id, name |-> hostedZone.Name ]

\* extractRecordName(fqdn, domain)
extractRecordName(fqdn, domain) ==
    LET name == UnFqdn(fqdn)
        idx == Index(name, <<Dot>> \o domain)
    IN  IF idx # -1 THEN SubSeq(name, 1, idx) ELSE name

\* Mutant of newTxtRecord: the default TTL instead of the configured one.
newTxtRecordDefaultTTL(zone, fqdn, value, ttl) ==
    TxtRecord(extractRecordName(fqdn, zone), value, DefaultTTL)

\* newTxtRecord(zone, fqdn, value, ttl)
newTxtRecord(zone, fqdn, value, ttl) ==
    TxtRecord(extractRecordName(fqdn, zone), value, ttl)

\* findTxtRecords(domain, fqdn): the records of the zone named as the challenge
findTxtRecords(recs, domain, fqdn, callNo, failAt) ==
    LET hz == getHostedZone(domain, callNo, failAt)
    IN  IF hz.err # Nil
        THEN [ calls |-> hz.calls, err |-> hz.err, found |-> <<>> ]
        ELSE IF callNo + 1 = failAt
        THEN [ calls |-> hz.calls \o << Call("RecordList", hz.name, 0, ZeroRecord, FALSE) >>,
               err |-> "RecordList() API call has failed", found |-> <<>> ]
        ELSE LET result == RecordList(recs, hz.name)
                 recordName == extractRecordName(fqdn, hz.name)
             IN  [ calls |-> hz.calls \o << Call("RecordList", hz.name, 0, ZeroRecord, TRUE) >>,
                   err |-> Nil,
                   found |-> SelectSeq(result, LAMBDA r : r.Name = recordName) ]

\* domain[:2] panics on a string shorter than two bytes
SlicePanics(domain) == Len(domain) < 2

\* if domain[:2] == "*." { domain = domain[2:] }
StripWildcard(domain) ==
    IF SubSeq(domain, 1, 2) = WildcardPrefix THEN SubSeq(domain, 3, Len(domain)) ELSE domain

Panic == "panic: slice bounds out of range"

----------------------------------------------------------------------------
(* The provider's operations.  Each yields the vendor calls it issued, the   *)
(* error it returned and the vendor's records afterwards.                    *)

\* Mutant of DeleteLoop: only the first record found is deleted.
DeleteLoopFirstOnly(recs, todo, zoneName, callNo, failAt) ==
    IF todo = <<>>
    THEN [ calls |-> <<>>, err |-> Nil, records |-> recs ]
    ELSE IF callNo = failAt
    THEN [ calls |-> << Call("RecordDelete", zoneName, Head(todo).Id, ZeroRecord, FALSE) >>,
           err |-> "RecordDelete err", records |-> recs ]
    ELSE [ calls |-> << Call("RecordDelete", zoneName, Head(todo).Id, ZeroRecord, TRUE) >>,
           err |-> Nil, records |-> RecordDelete(recs, zoneName, Head(todo).Id) ]

\* Mutant of DeleteLoop: a failed RecordDelete is skipped and the loop goes on.
RECURSIVE DeleteLoopGoesOn(_, _, _, _, _)
DeleteLoopGoesOn(recs, todo, zoneName, callNo, failAt) ==
    IF todo = <<>>
    THEN [ calls |-> <<>>, err |-> Nil, records |-> recs ]
    ELSE LET ok == callNo # failAt
             rest == DeleteLoopGoesOn(
                         IF ok THEN RecordDelete(recs, zoneName, Head(todo).Id) ELSE recs,
                         Tail(todo), zoneName, callNo + 1, failAt)
         IN  [ calls |-> << Call("RecordDelete", zoneName, Head(todo).Id, ZeroRecord, ok) >>
                             \o rest.calls,
               err |-> IF ok THEN rest.err ELSE "RecordDelete err",
               records |-> rest.records ]

\* for _, rec := range records { RecordDelete(zoneName, rec.Id) } of CleanUp
RECURSIVE DeleteLoop(_, _, _, _, _)
DeleteLoop(recs, todo, zoneName, callNo, failAt) ==
    IF todo = <<>>
    THEN [ calls |-> <<>>, err |-> Nil, records |-> recs ]
    ELSE IF callNo = failAt
    THEN [ calls |-> << Call("RecordDelete", zoneName, Head(todo).Id, ZeroRecord, FALSE) >>,
           err |-> "RecordDelete err", records |-> recs ]
    ELSE LET rest == DeleteLoop(RecordDelete(recs, zoneName, Head(todo).Id),
                                Tail(todo), zoneName, callNo + 1, failAt)
         IN  [ calls |-> << Call("RecordDelete", zoneName, Head(todo).Id, ZeroRecord, TRUE) >>
                             \o rest.calls,
               err |-> rest.err,
               records |-> rest.records ]

\* Present(domain, token, keyAuth)
Present(domain, keyAuth, failAt) ==
    IF SlicePanics(domain)
    THEN [ calls |-> <<>>, err |-> Panic, records |-> records, nextId |-> nextId ]
    ELSE LET dom == StripWildcard(domain)
             gr == GetRecord(dom, keyAuth)
             hz == getHostedZone(dom, 1, failAt)
             recordAttributes == newTxtRecord(hz.name, gr.fqdn, gr.value, provider.config.TTL)
         IN  IF hz.err # Nil
             THEN [ calls |-> hz.calls, err |-> hz.err, records |-> records, nextId |-> nextId ]
             ELSE IF failAt = 2
             THEN [ calls |-> hz.calls \o
                        << Call("RecordCreate", hz.name, 0, recordAttributes, FALSE) >>,
                    err |-> "RecordCreate() API call failed",
                    records |-> records, nextId |-> nextId ]
             ELSE [ calls |-> hz.calls \o
                        << Call("RecordCreate", hz.name, 0, recordAttributes, TRUE) >>,
                    err |-> Nil,
                    records |-> RecordCreate(records, nextId, hz.name, recordAttributes),
                    nextId |-> nextId + 1 ]

\* CleanUp(domain, token, keyAuth)
CleanUp(domain, keyAuth, failAt) ==
    IF SlicePanics(domain)
    THEN [ calls |-> <<>>, err |-> Panic, records |-> records ]
    ELSE LET dom == StripWildcard(domain)
             gr == GetRecord(dom, keyAuth)
             found == findTxtRecords(records, dom, gr.fqdn, 1, failAt)
             hz == getHostedZone(dom, 3, failAt)
             del == DeleteLoop(records, found.found, hz.name, 4, failAt)
         IN  IF found.err # Nil
             THEN [ calls |-> found.calls, err |-> found.err, records |-> records ]
             ELSE IF hz.err # Nil
             THEN [ calls |-> found.calls \o hz.calls, err |-> hz.err, records |-> records ]
             ELSE [ calls |-> found.calls \o hz.calls \o del.calls,
                    err |-> del.err, records |-> del.records ]

\* Mutant of Timeout: the two durations are swapped.
TimeoutSwapped == << provider.config.PollingInterval, provider.config.PropagationTimeout >>

\* Timeout()
Timeout == << provider.config.PropagationTimeout, provider.config.PollingInterval >>

----------------------------------------------------------------------------
(* Initial states *)

\* "b.c" and "z.y", the names of zones hosted at the vendor
ZoneBC == <<"b",".","c">>
ZoneZY == <<"z",".","y">>

\* What DomainList() returns: no zone, a zone entry without Id, or two zones
\* of which one is the zone of the challenge.
ZoneLists ==
    { <<>>,
      << [ Id |-> 0, Name |-> ZoneBC ] >>,
      << [ Id |-> 8, Name |-> ZoneZY ], [ Id |-> 7, Name |-> ZoneBC ] >> }

\* Records the zone owner keeps in "b.c": a CNAME named "_acme-challenge" and
\* a TXT record named "w".
OwnerRecords ==
    << [ Id |-> 1, Zone |-> ZoneBC, Type |-> "CNAME", Name |-> UnFqdn(AcmePrefix),
         Value |-> <<"cname", "v.example">>, Ttl |-> DefaultTTL ],
       [ Id |-> 2, Zone |-> ZoneBC, Type |-> "TXT", Name |-> <<"w">>,
         Value |-> <<"txt", "v=spf1">>, Ttl |-> DefaultTTL ] >>

FirstFreeId == Len(OwnerRecords) + 1

\* A record the vendor created on a RecordCreate of the provider
CreatedByPresent(r) == r.Id >= FirstFreeId

NoOp ==
    [ op |-> "none", domain |-> <<>>, keyAuth |-> "", calls |-> <<>>, err |-> Nil,
      timeout |-> 0, interval |-> 0 ]

\* The configuration of the provider whose operations Spec follows
OpsConfig ==
    [ isNil |-> FALSE, SecretId |-> "AKID", SecretKey |-> "SK", TTL |-> 120,
      PropagationTimeout |-> 90, PollingInterval |-> 5 ]

\* After construction: a provider, and a vendor with some zones
Init ==
    /\ provider = NewDNSProviderConfig(OpsConfig).provider
    /\ zones \in ZoneLists
    /\ records = OwnerRecords
    /\ nextId = FirstFreeId
    /\ lastOp = NoOp
    /\ prevRecords = records
    /\ built = provider.config

\* Before construction
InitNew ==
    /\ provider = NoProvider
    /\ zones \in ZoneLists
    /\ records = OwnerRecords
    /\ nextId = FirstFreeId
    /\ lastOp = NoOp
    /\ prevRecords = records
    /\ built = NilConfig

----------------------------------------------------------------------------
(* Actions *)

Constructed(r, opName) ==
    /\ provider' = r.provider
    /\ built' = r.provider.config
    /\ lastOp' = [ NoOp EXCEPT !.op = opName, !.err = r.err ]
    /\ prevRecords' = records
    /\ UNCHANGED <<zones, records, nextId>>

NewDNSProviderConfigAct ==
    /\ ~provider.exists
    /\ \E config \in Configs : Constructed(NewDNSProviderConfig(config), "NewDNSProviderConfig")

NewDNSProviderAct ==
    /\ ~provider.exists
    /\ \E envId \in SecretIds, envKey \in SecretKeys :
           Constructed(NewDNSProvider(envId, envKey, 0), "NewDNSProvider")

PresentAct(chs) ==
    /\ provider.exists
    /\ nextId < FirstFreeId + MaxCreates
    /\ \E ch \in chs, failAt \in 0..2 :
           LET r == Present(ch[1], ch[2], failAt)
           IN  /\ records' = r.records
               /\ nextId' = r.nextId
               /\ prevRecords' = records
               /\ lastOp' = [ NoOp EXCEPT !.op = "Present", !.domain = ch[1],
                                           !.keyAuth = ch[2], !.calls = r.calls,
                                           !.err = r.err ]
               /\ UNCHANGED <<provider, zones, built>>

CleanUpAct(chs) ==
    /\ provider.exists
    /\ \E ch \in chs, failAt \in 0..(3 + Len(records)) :
           LET r == CleanUp(ch[1], ch[2], failAt)
           IN  /\ records' = r.records
               /\ prevRecords' = records
               /\ lastOp' = [ NoOp EXCEPT !.op = "CleanUp", !.domain = ch[1],
                                           !.keyAuth = ch[2], !.calls = r.calls,
                                           !.err = r.err ]
               /\ UNCHANGED <<provider, zones, nextId, built>>

TimeoutAct ==
    /\ provider.exists
    /\ lastOp' = [ NoOp EXCEPT !.op = "Timeout", !.timeout = Timeout[1],
                                !.interval = Timeout[2] ]
    /\ prevRecords' = records
    /\ UNCHANGED <<provider, zones, records, nextId, built>>

\* The operations of a constructed provider on the challenges of an order
Next ==
    \/ PresentAct(Challenges)
    \/ CleanUpAct(Challenges)
    \/ TimeoutAct

Spec == Init /\ [][Next]_vars

\* Construction, and the operations on any challenge
NextNew ==
    \/ NewDNSProviderConfigAct
    \/ NewDNSProviderAct
    \/ PresentAct(Challenges \cup StrayChallenges)
    \/ CleanUpAct(Challenges \cup StrayChallenges)
    \/ TimeoutAct

SpecNew == InitNew /\ [][NextNew]_vars

----------------------------------------------------------------------------
(* What the claims speak of *)

\* The domain a challenge is for: the name after the wildcard prefix
BaseDomain(domain) ==
    IF Len(domain) >= 2 /\ domain[1] = Star /\ domain[2] = Dot
    THEN SubSeq(domain, 3, Len(domain)) ELSE domain

\* The name, without trailing dot, of the authoritative zone of the last operation's domain
AuthZoneName == UnFqdn(FindZoneByFqdn(ToFqdn(BaseDomain(lastOp.domain))))

\* The FQDN of the last operation's challenge
ChallengeFqdn == GetRecord(BaseDomain(lastOp.domain), lastOp.keyAuth).fqdn

\* The leaf name the provider derives for the last operation's challenge
LeafName == extractRecordName(ChallengeFqdn, AuthZoneName)

\* DomainList returns a zone of the authoritative zone's name that has an Id
ZoneFound == \E i \in 1..Len(zones) : zones[i].Name = AuthZoneName /\ zones[i].Id # 0

\* DomainList returns no zone of that name, or a single one, which has Id 0
ZoneMissing ==
    LET named == { i \in 1..Len(zones) : zones[i].Name = AuthZoneName }
    IN  named = {} \/ (Cardinality(named) = 1 /\ \A i \in named : zones[i].Id = 0)

AllCallsOk == \A i \in 1..Len(lastOp.calls) : lastOp.calls[i].ok

CallsOf(api) == SelectSeq(lastOp.calls, LAMBDA c : c.api = api)

RecordApis == { "RecordList", "RecordCreate", "RecordDelete" }

InSeq(x, seq) == \E i \in 1..Len(seq) : seq[i] = x

\* The records of the challenge's name in the zone, among recs
Matching(recs) ==
    SelectSeq(recs, LAMBDA r : r.Zone = AuthZoneName /\ r.Name = LeafName)

----------------------------------------------------------------------------
(* Claims *)

\* C1: every RecordDelete call of CleanUp targets the Id of a record whose
\* type is TXT.
C1_CleanUpDeletesOnlyTxt ==
    lastOp.op = "CleanUp" =>
        \A i \in 1..Len(lastOp.calls) :
            lastOp.calls[i].api = "RecordDelete" =>
                \E j \in 1..Len(prevRecords) :
                    /\ prevRecords[j].Id = lastOp.calls[i].id
                    /\ prevRecords[j].Type = "TXT"

\* C2: the name of the record Present creates is the FQDN with the zone
\* suffix removed: name + "." + zone + "." is the challenge's FQDN.
C2_LeafNameIsFqdnWithoutZone ==
    lastOp.op = "Present" =>
        \A i \in 1..Len(lastOp.calls) :
            lastOp.calls[i].api = "RecordCreate" =>
                lastOp.calls[i].rec.Name \o <<Dot>> \o lastOp.calls[i].zone \o <<Dot>>
                    = ChallengeFqdn

\* C3: when two challenges of the same record name have both been presented,
\* a CleanUp for one of them leaves the record carrying the other one's value.
C3_CleanUpKeepsOtherChallenge ==
    ( /\ lastOp.op = "CleanUp"
      /\ \E j \in 1..Len(prevRecords) :
             /\ CreatedByPresent(prevRecords[j])
             /\ prevRecords[j].Value = ChallengeValue(lastOp.keyAuth) )
    => \A j \in 1..Len(prevRecords) :
           ( /\ CreatedByPresent(prevRecords[j])
             /\ prevRecords[j].Value # ChallengeValue(lastOp.keyAuth) )
           => InSeq(prevRecords[j], records)

\* C4: when the zone is found and every vendor call succeeds, Present returns
\* nil after DomainList and exactly one RecordCreate, against the matched zone,
\* of a TXT record with the derived leaf name, the challenge value and the
\* configured TTL; it issues no RecordDelete, and the vendor holds that record.
C4_PresentCreatesOneTxtRecord ==
    (lastOp.op = "Present" /\ ZoneFound /\ AllCallsOk) =>
        LET rec == TxtRecord(LeafName, ChallengeValue(lastOp.keyAuth), built.TTL)
        IN  /\ lastOp.err = Nil
            /\ lastOp.calls = << Call("DomainList", <<>>, 0, ZeroRecord, TRUE),
                                 Call("RecordCreate", AuthZoneName, 0, rec, TRUE) >>
            /\ records = RecordCreate(prevRecords, nextId - 1, AuthZoneName, rec)

C4_Witness ==
    /\ lastOp.op = "Present" /\ ZoneFound /\ AllCallsOk
    /\ lastOp.domain[1] = Star
    /\ Len(CallsOf("RecordCreate")) = 1

\* C5: when the zone is found and every vendor call succeeds, CleanUp returns
\* nil after one RecordDelete, by Id and against the zone, for every record of
\* the zone named as the derived leaf name; afterwards no record of that name
\* is left in the zone and every other record is still there.
C5_CleanUpDeletesEveryMatch ==
    (lastOp.op = "CleanUp" /\ ZoneFound /\ AllCallsOk) =>
        /\ lastOp.err = Nil
        /\ CallsOf("RecordDelete") =
               [ i \in 1..Len(Matching(prevRecords)) |->
                     Call("RecordDelete", AuthZoneName, Matching(prevRecords)[i].Id,
                          ZeroRecord, TRUE) ]
        /\ Matching(records) = <<>>
        /\ records = SelectSeq(prevRecords,
                               LAMBDA r : ~(r.Zone = AuthZoneName /\ r.Name = LeafName))

C5_Witness ==
    /\ lastOp.op = "CleanUp" /\ ZoneFound /\ AllCallsOk
    /\ Len(Matching(prevRecords)) >= 2
    /\ \E j \in 1..Len(prevRecords) :
           /\ CreatedByPresent(prevRecords[j])
           /\ prevRecords[j].Value = ChallengeValue(lastOp.keyAuth)
           /\ prevRecords[j].Name = LeafName
    /\ Matching(records) = <<>>

\* C6: for every domain D, Present("*." + D) issues the same vendor calls and
\* returns the same as Present(D) on the same vendor state, CleanUp("*." + D)
\* the same as CleanUp(D), and no record whose name contains "*" is created.
\* Stated of the domain D the last operation was called with.
C6_WildcardSameAsPlain ==
    (lastOp.op \in { "Present", "CleanUp" } /\ lastOp.domain[1] # Star) =>
        /\ \A failAt \in 0..(3 + Len(records)) :
               /\ Present(WildcardPrefix \o lastOp.domain, lastOp.keyAuth, failAt)
                      = Present(lastOp.domain, lastOp.keyAuth, failAt)
               /\ CleanUp(WildcardPrefix \o lastOp.domain, lastOp.keyAuth, failAt)
                      = CleanUp(lastOp.domain, lastOp.keyAuth, failAt)
        /\ \A i \in 1..Len(lastOp.calls) :
               lastOp.calls[i].api = "RecordCreate" =>
                   \A k \in 1..Len(lastOp.calls[i].rec.Name) :
                       lastOp.calls[i].rec.Name[k] # Star

\* C7: a failed vendor call is the last call of its operation, which returns
\* an error; what CleanUp had not deleted by then stays in the zone.
C7_VendorFailureEndsOperation ==
    lastOp.op \in { "Present", "CleanUp" } =>
        /\ \A i \in 1..Len(lastOp.calls) :
               ~lastOp.calls[i].ok => (i = Len(lastOp.calls) /\ lastOp.err # Nil)
        /\ ~AllCallsOk =>
               \A j \in 1..Len(prevRecords) :
                   InSeq(prevRecords[j], records) <=>
                       ~\E i \in 1..Len(lastOp.calls) :
                           /\ lastOp.calls[i].api = "RecordDelete"
                           /\ lastOp.calls[i].ok
                           /\ lastOp.calls[i].id = prevRecords[j].Id

C7_Witness ==
    /\ lastOp.op = "CleanUp"
    /\ Len(CallsOf("RecordDelete")) = 2
    /\ ~lastOp.calls[Len(lastOp.calls)].ok
    /\ Len(Matching(prevRecords)) = 3
    /\ Len(Matching(records)) = 2

\* C8: Timeout returns (PropagationTimeout, PollingInterval) of the
\* configuration the provider was constructed with, whatever Present and
\* CleanUp did before: they leave the configuration unchanged.
C8_TimeoutReturnsBuiltConfig ==
    /\ provider.config = built
    /\ lastOp.op = "Timeout" =>
           /\ lastOp.timeout = built.PropagationTimeout
           /\ lastOp.interval = built.PollingInterval

C8_Witness ==
    /\ lastOp.op = "Timeout"
    /\ lastOp.timeout = OpsConfig.PropagationTimeout
    /\ nextId > FirstFreeId
    /\ Len(records) < Len(OwnerRecords)

\* C9: when DomainList succeeds and returns no zone of the authoritative
\* zone's name, or only one with Id 0, the operation returns an error and
\* issues no record call; every record call is addressed to the authoritative
\* zone's name and follows a successful DomainList.
C9_ZoneLookupFailSafe ==
    lastOp.op \in { "Present", "CleanUp" } =>
        /\ (lastOp.calls # <<>> /\ lastOp.calls[1].ok /\ ZoneMissing) =>
               /\ lastOp.err # Nil
               /\ \A i \in 1..Len(lastOp.calls) : lastOp.calls[i].api \notin RecordApis
        /\ \A i \in 1..Len(lastOp.calls) :
               lastOp.calls[i].api \in RecordApis =>
                   /\ lastOp.calls[i].zone = AuthZoneName
                   /\ \E j \in 1..(i - 1) :
                          lastOp.calls[j].api = "DomainList" /\ lastOp.calls[j].ok

C9_Witness ==
    /\ lastOp.op = "CleanUp"
    /\ lastOp.calls # <<>> /\ lastOp.calls[1].ok
    /\ \E i \in 1..Len(zones) : zones[i].Name = AuthZoneName /\ zones[i].Id = 0
    /\ lastOp.err # Nil

\* C10: a provider exists only with both credentials non-empty.
C10_ProviderHasBothCredentials ==
    provider.exists =>
        /\ ~provider.config.isNil
        /\ provider.config.SecretId # ""
        /\ provider.config.SecretKey # ""

====
